---- MODULE Spec2Model ----
(***************************************************************************)
(* "Bake by Energy Price" (src/Streamlit/app.py): a Streamlit script that  *)
(* is run top to bottom for every session and every widget change.  The    *)
(* model keeps the process-wide memo of load_data, the session's widget    *)
(* state and everything the last run of the script put on the page.        *)
(*                                                                         *)
(* Prices are IEEE-754 binary64 numbers, as in pandas and CPython: every   *)
(* arithmetic step rounds to nearest, ties to even.  A number is the       *)
(* record [neg, m, e] standing for (-1)^neg * m * 2^e with m an odd        *)
(* natural number below 2^53 (or zero), m being kept as little-endian      *)
(* limbs in base 2^15 so that no intermediate value leaves 32 bits.        *)
(* Overflow, subnormals, NaN and the sign of zero are outside the model:   *)
(* no value here comes near them, and the sign of zero decides nothing.    *)
(***************************************************************************)
EXTENDS Integers, Sequences, FiniteSets, TLC

VARIABLES disk, exists, cache, reads, widgets, out
vars == <<disk, exists, cache, reads, widgets, out>>

(***************************************************************************)
(* Natural numbers of any size, and binary64 arithmetic on top of them.    *)
(***************************************************************************)
BASE == 2^15
MANT_DIG == 53

\* a sequence given by a rule, with every item worked out once
MkSeq(f) == f \o <<>>
Min(a, b) == IF a < b THEN a ELSE b
Limb(a, i) == IF i >= 1 /\ i <= Len(a) THEN a[i] ELSE 0
Strip(s) ==
    SubSeq(s, 1, CHOOSE k \in 0..Len(s) :
                     (k = 0 \/ s[k] # 0) /\ \A j \in (k + 1)..Len(s) : s[j] = 0)
BigOf(k) == Strip(<<k % BASE, (k \div BASE) % BASE, k \div (BASE * BASE)>>)

\* the limbs of the number whose columns are v, least first: each column
\* hands what exceeds a limb (or what it lacks) to the next
RECURSIVE Carry(_, _, _)
Carry(v, acc, c) ==
    IF Len(acc) = Len(v) THEN Strip(IF c = 0 THEN acc ELSE Append(acc, c))
    ELSE Carry(v, Append(acc, (v[Len(acc) + 1] + c) % BASE), (v[Len(acc) + 1] + c) \div BASE)

BAdd(a, b) ==
    Carry(MkSeq([i \in 1..(IF Len(a) > Len(b) THEN Len(a) ELSE Len(b)) |-> Limb(a, i) + Limb(b, i)]),
          <<>>, 0)
\* a - b for a >= b
BSub(a, b) == Carry(MkSeq([i \in 1..Len(a) |-> a[i] - Limb(b, i)]), <<>>, 0)
BMulSmall(a, k) == Carry(MkSeq([i \in 1..Len(a) |-> a[i] * k]), <<>>, 0)
BShiftLimbs(a, n) == IF a = <<>> THEN a ELSE MkSeq([i \in 1..n |-> 0]) \o a
RECURSIVE SumTo(_, _)
SumTo(f, n) == IF n = 0 THEN 0 ELSE f[n] + SumTo(f, n - 1)
\* the columns of the partial products a * b[i], added up
BColumns(a, b, part) ==
    MkSeq([k \in 1..(Len(a) + Len(b)) |->
              SumTo([i \in 1..Len(b) |-> Limb(part[i], k - i + 1)], Len(b))])
BMul(a, b) ==
    IF Len(b) = 1 THEN BMulSmall(a, b[1])
    ELSE IF Len(a) = 1 THEN BMulSmall(b, a[1])
    ELSE Carry(BColumns(a, b, MkSeq([i \in 1..Len(b) |-> BMulSmall(a, b[i])])), <<>>, 0)
BCmp(a, b) ==
    IF Len(a) # Len(b) THEN (IF Len(a) < Len(b) THEN -1 ELSE 1)
    ELSE LET D == {i \in 1..Len(a) : a[i] # b[i]}
         IN  IF D = {} THEN 0
             ELSE IF a[CHOOSE i \in D : \A j \in D : j <= i] < b[CHOOSE i \in D : \A j \in D : j <= i]
             THEN -1 ELSE 1

\* quotient and remainder of a by a one-limb divisor d, from the top limb down
RECURSIVE BDivSmallAt(_, _, _, _)
BDivSmallAt(a, d, q, c) ==
    IF Len(q) = Len(a) THEN [quo |-> Strip(q), exact |-> c = 0]
    ELSE BDivSmallAt(a, d, <<(c * BASE + a[Len(a) - Len(q)]) \div d>> \o q,
                     (c * BASE + a[Len(a) - Len(q)]) % d)

SmallBitLen(k) == Cardinality({j \in 0..14 : 2^j <= k})
BitLen(a) == IF a = <<>> THEN 0 ELSE 15 * (Len(a) - 1) + SmallBitLen(a[Len(a)])
BShl(a, k) == BMulSmall(BShiftLimbs(a, k \div 15), 2^(k % 15))
BShr(a, k) ==
    Strip(MkSeq([i \in 1..(Len(a) - k \div 15) |->
        (a[i + k \div 15] \div 2^(k % 15))
        + (Limb(a, i + k \div 15 + 1) % 2^(k % 15)) * 2^(15 - (k % 15))]))
BBit(a, i) == (Limb(a, i \div 15 + 1) \div 2^(i % 15)) % 2
\* some bit of a below bit i is set
BLowBits(a, i) ==
    \/ \E j \in 1..Len(a) : j <= i \div 15 /\ a[j] # 0
    \/ Limb(a, i \div 15 + 1) % 2^(i % 15) # 0
\* a / 2^k rounded to nearest, ties to even
BRoundShr(a, k) ==
    IF k = 0 THEN a
    ELSE BAdd(BShr(a, k),
              IF BBit(a, k - 1) = 1 /\ (BLowBits(a, k - 1) \/ BBit(a, k) = 1)
              THEN <<1>> ELSE <<>>)
SmallTz(k) == Cardinality({j \in 1..14 : k % 2^j = 0})
BTz(a) ==
    LET low == CHOOSE j \in 1..Len(a) : a[j] # 0 /\ \A i \in 1..(j - 1) : a[i] = 0
    IN  15 * (low - 1) + SmallTz(a[low])

\* long division of n by d, whose top limb is at least BASE/2: each limb of
\* the quotient is estimated from the top limbs and corrected downwards
RECURSIVE BFix(_, _, _)
BFix(x, d, g) == IF BCmp(BMulSmall(d, g), x) <= 0 THEN g ELSE BFix(x, d, g - 1)
BDigit(x, d) ==
    BFix(x, d, Min(BASE - 1, (Limb(x, Len(d) + 1) * BASE + Limb(x, Len(d))) \div d[Len(d)]))
RECURSIVE BDivModAt(_, _, _, _)
RECURSIVE BDivStep(_, _, _, _, _)
BDivStep(n, d, q, x, g) == BDivModAt(n, d, <<g>> \o q, BSub(x, BMulSmall(d, g)))
BDivBring(n, d, q, x) == BDivStep(n, d, q, x, BDigit(x, d))
BDivModAt(n, d, q, c) ==
    IF Len(q) = Len(n) THEN [quo |-> Strip(q), exact |-> c = <<>>]
    ELSE BDivBring(n, d, q, Strip(<<n[Len(n) - Len(q)]>> \o c))
\* the top Len(d) - 1 limbs of n are below d and give no quotient
BDivLong(n, d) ==
    IF Len(n) < Len(d) THEN [quo |-> <<>>, exact |-> n = <<>>]
    ELSE BDivModAt(n, d, MkSeq([i \in 1..(Len(d) - 1) |-> 0]),
                   Strip(SubSeq(n, Len(n) - Len(d) + 2, Len(n))))
\* quotient of n by d (d # 0), and whether the division is exact
BDivMod(n, d) ==
    IF Len(d) = 1 THEN BDivSmallAt(n, d[1], <<>>, 0)
    ELSE BDivLong(BShl(n, 15 - SmallBitLen(d[Len(d)])), BShl(d, 15 - SmallBitLen(d[Len(d)])))

\* ---- binary64: (-1)^neg * m * 2^e, m odd (or zero) and below 2^53
FZero == [neg |-> FALSE, m |-> <<>>, e |-> 0]
FOdd(neg, m, e, tz) == [neg |-> neg, m |-> BShr(m, tz), e |-> e + tz]
FTrim(neg, m, e) == FOdd(neg, m, e, BTz(m))
FShort(neg, m, e, k) == FTrim(neg, BRoundShr(m, k), e + k)
FRound(neg, m, e) ==
    IF m = <<>> THEN FZero
    ELSE FShort(neg, m, e, IF BitLen(m) > MANT_DIG THEN BitLen(m) - MANT_DIG ELSE 0)
FInt(k) == FRound(k < 0, BigOf(IF k < 0 THEN -k ELSE k), 0)
FNeg(x) == IF x.m = <<>> THEN x ELSE [x EXCEPT !.neg = ~x.neg]
\* the sum of (-1)^xn * mx and (-1)^yn * my, times 2^e
FAddAt(xn, mx, yn, my, e) ==
    FRound(IF xn = yn \/ BCmp(mx, my) >= 0 THEN xn ELSE yn,
           IF xn = yn THEN BAdd(mx, my)
           ELSE IF BCmp(mx, my) >= 0 THEN BSub(mx, my) ELSE BSub(my, mx), e)
FAdd(x, y) ==
    IF x.m = <<>> THEN y
    ELSE IF y.m = <<>> THEN x
    ELSE FAddAt(x.neg, BShl(x.m, x.e - Min(x.e, y.e)),
                y.neg, BShl(y.m, y.e - Min(x.e, y.e)), Min(x.e, y.e))
FSub(x, y) == FAdd(x, FNeg(y))
FMul(x, y) == FRound(x.neg # y.neg, BMul(x.m, y.m), x.e + y.e)
\* twice the quotient, with a last bit that tells an inexact division
BSticky(dm) == IF dm.exact THEN BMulSmall(dm.quo, 2) ELSE BAdd(BMulSmall(dm.quo, 2), <<1>>)
\* y # 0; the quotient keeps at least two guard bits before the sticky bit
FDiv(x, y) ==
    LET k == MANT_DIG + 2 + BitLen(y.m) - BitLen(x.m)
    IN  FRound(x.neg # y.neg, BSticky(BDivMod(BShl(x.m, k), y.m)), x.e - y.e - k - 1)
\* -1, 0, 1
FCmpAbs(x, y) ==
    IF BitLen(x.m) + x.e # BitLen(y.m) + y.e
    THEN (IF BitLen(x.m) + x.e < BitLen(y.m) + y.e THEN -1 ELSE 1)
    ELSE BCmp(BShl(x.m, x.e - Min(x.e, y.e)), BShl(y.m, y.e - Min(x.e, y.e)))
FCmp(x, y) ==
    IF x = y THEN 0
    ELSE IF x.m = <<>> THEN (IF y.neg THEN 1 ELSE -1)
    ELSE IF y.m = <<>> THEN (IF x.neg THEN -1 ELSE 1)
    ELSE IF x.neg # y.neg THEN (IF x.neg THEN -1 ELSE 1)
    ELSE IF x.neg THEN FCmpAbs(y, x) ELSE FCmpAbs(x, y)
FLe(x, y) == FCmp(x, y) <= 0
FGe(x, y) == FCmp(x, y) >= 0
\* floor of a small x >= 0 as an integer
SmallOf(a) == Limb(a, 1) + BASE * Limb(a, 2)
FFloor(x) == SmallOf(IF x.e >= 0 THEN BShl(x.m, x.e) ELSE BShr(x.m, -x.e))

(***************************************************************************)
(* The input file and the table.  A timestamp is a number of hours, so     *)
(* that a calendar day is a block of 24; a date_cet cell that does not     *)
(* parse is NaT.  A price cell is <<>> when it is empty (NaN) and <<h>>    *)
(* for a price of h half-euros per MWh.                                    *)
(***************************************************************************)
DATA_PATH == "Data/gold.csv"
NaT == -1
normalize(t) == t - (t % 24)
CellValue(c) == FRound(c[1] < 0, BigOf(IF c[1] < 0 THEN -c[1] ELSE c[1]), -1)
Range(s) == {s[i] : i \in 1..Len(s)}
Take(s, order) == MkSeq([k \in 1..Len(order) |-> s[order[k]]])

\* the ascending order of the positions S that keeps equal keys in their
\* original order, and the one that reverses them
RECURSIVE StableOrder(_, _)
StableOrder(S, key) ==
    IF S = {} THEN <<>>
    ELSE LET i == CHOOSE k \in S : \A j \in S : key[k] < key[j] \/ (key[k] = key[j] /\ k <= j)
         IN  <<i>> \o StableOrder(S \ {i}, key)
RECURSIVE ReversingOrder(_, _)
ReversingOrder(S, key) ==
    IF S = {} THEN <<>>
    ELSE LET i == CHOOSE k \in S : \A j \in S : key[k] < key[j] \/ (key[k] = key[j] /\ k >= j)
         IN  <<i>> \o ReversingOrder(S \ {i}, key)
\* numpy's default sort ("quicksort") promises no order among equal keys.
\* Of the orders it may leave, two are kept: equal keys as they stood (what
\* its insertion sort of a short array gives) and equal keys reversed
\* (standing for the reorderings of its vectorised kernels).
SortOrders(S, key) == {StableOrder(S, key), ReversingOrder(S, key)}

read_csv(path) == disk
to_datetime(df) == df
\* a faulty variant: the rows whose date_cet did not parse are kept
dropna_none(df) == df
dropna_date(df) == [df EXCEPT !.rows = SelectSeq(df.rows, LAMBDA r : r.ts # NaT)]
sort_values_date(df) ==
    LET key == MkSeq([i \in 1..Len(df.rows) |-> df.rows[i].ts])
    IN  {[df EXCEPT !.rows = Take(df.rows, o)] : o \in SortOrders(1..Len(df.rows), key)}
\* the tables load_data may return
load_data(path) == sort_values_date(dropna_date(to_datetime(read_csv(path))))

\* st.cache_data: the memo of load_data, keyed by its argument
\* a faulty variant: load_data without its st.cache_data decorator
CacheNever(path) == FALSE
CacheHit(path) == \E e \in cache : e[1] = path
CacheGet(path) == {e[2] : e \in {x \in cache : x[1] = path}}

is_monotonic_increasing(df) ==
    \A i \in 1..(Len(df.rows) - 1) : df.rows[i].ts <= df.rows[i + 1].ts
\* gold_df.set_index("date_cet").sort_index(): a sorted index is left as it is
sort_index(df) == IF is_monotonic_increasing(df) THEN {df} ELSE sort_values_date(df)

(***************************************************************************)
(* The computations of one run on the day slice.                           *)
(***************************************************************************)
F1000 == FInt(1000)
F100 == FInt(100)
OVEN_KW == FRound(FALSE, BigOf(5), -1)
BAKE_HOURS == FInt(1)
BAKE_KWH == FMul(OVEN_KW, BAKE_HOURS)
\* the literals 0.33 and 0.66
Q_LOW == FDiv(FInt(33), F100)
Q_HIGH == FDiv(FInt(66), F100)
\* Series.quantile(q) hands q * 100 to np.percentile, which divides it by 100
np_quantiles(q) == FDiv(FMul(q, F100), F100)
QUANTILES_LOW == np_quantiles(Q_LOW)
QUANTILES_HIGH == np_quantiles(Q_HIGH)

\* today["price_kwh"]
price_kwh_of(today) == MkSeq([i \in 1..Len(today) |-> today[i].price_kwh])

\* res = sums[1]; for x in xs: res += x  (sums holds res after each step)
RECURSIVE AddUp(_, _)
AddUp(xs, sums) ==
    IF Len(sums) > Len(xs) THEN sums[Len(sums)]
    ELSE AddUp(xs, Append(sums, FAdd(sums[Len(sums)], xs[Len(sums)])))
\* s[1] + s[2], s[3] + s[4], ...
InPairs(s) == MkSeq([i \in 1..(Len(s) \div 2) |-> FAdd(s[2 * i - 1], s[2 * i])])
\* numpy's add.reduce over a contiguous array: a plain loop below 8 items;
\* up to 128 items eight running sums over the blocks of eight, combined
\* pairwise, and then the items left over
Lanes(xs) ==
    MkSeq([j \in 1..8 |->
        AddUp(MkSeq([k \in 1..(Len(xs) \div 8 - 1) |-> xs[8 * k + j]]), <<xs[j]>>)])
pairwise_sum(xs) ==
    IF Len(xs) < 8 THEN AddUp(xs, <<FZero>>)
    ELSE AddUp(SubSeq(xs, Len(xs) - (Len(xs) % 8) + 1, Len(xs)),
               <<InPairs(InPairs(InPairs(Lanes(xs))))[1]>>)
\* Series.mean(): the sum over the count
mean(xs) == FDiv(pairwise_sum(xs), FInt(Len(xs)))

\* position i's rank: how many values are below it, or above it
RankUp(xs) ==
    MkSeq([i \in 1..Len(xs) |-> Cardinality({j \in 1..Len(xs) : FCmp(xs[j], xs[i]) < 0})])
RankDown(xs) ==
    MkSeq([i \in 1..Len(xs) |-> Cardinality({j \in 1..Len(xs) : FCmp(xs[j], xs[i]) > 0})])
sorted(xs) == Take(xs, StableOrder(1..Len(xs), RankUp(xs)))

\* numpy's _lerp(a, b, t), diff_b_a being b - a
lerp_from(a, b, t, diff_b_a) ==
    IF FCmp(t, FRound(FALSE, <<1>>, -1)) >= 0
    THEN FSub(b, FMul(diff_b_a, FSub(FInt(1), t)))
    ELSE FAdd(a, FMul(diff_b_a, t))
lerp(a, b, t) == lerp_from(a, b, t, FSub(b, a))
\* numpy's _quantile for the method "linear" on the sorted values arr
between(arr, virtual_index, previous_index) ==
    lerp(arr[previous_index + 1], arr[previous_index + 2],
         FSub(virtual_index, FInt(previous_index)))
at_index(arr, virtual_index) ==
    IF FCmp(virtual_index, FInt(Len(arr) - 1)) >= 0 THEN arr[Len(arr)]
    ELSE between(arr, virtual_index, FFloor(virtual_index))
\* Series.quantile(q): np.percentile(values, q * 100), method "linear", whose
\* virtual index is (n - 1) * quantiles
\* a faulty variant: the quantile counted from the top (a descending sort)
quantile_descending(xs, quantiles) ==
    at_index(sorted(xs), FMul(FInt(Len(xs) - 1), FSub(FInt(1), quantiles)))
quantile(xs, quantiles) == at_index(sorted(xs), FMul(FInt(Len(xs) - 1), quantiles))

\* a faulty variant: price < low_thr in place of price <= low_thr
bake_reco_strict(price, low_thr, high_thr) ==
    IF FCmp(price, low_thr) < 0 THEN <<"APPLE PIE TIME", "success">>
    ELSE IF FGe(price, high_thr) THEN <<"CHEESECAKE TIME", "error">>
    ELSE <<"FLEXIBLE BAKING HOUR", "info">>
bake_reco(price, low_thr, high_thr) ==
    IF FLe(price, low_thr) THEN <<"APPLE PIE TIME", "success">>
    ELSE IF FGe(price, high_thr) THEN <<"CHEESECAKE TIME", "error">>
    ELSE <<"FLEXIBLE BAKING HOUR", "info">>

\* DataFrame.nsmallest(n, "price_kwh") and nlargest, keep="first": with n
\* below the number of rows the n first in a stable order; otherwise pandas
\* takes sort_values(...).head(n), whose default sort is not stable
first_by(today, n, key) ==
    IF n >= Len(today)
    THEN {Take(today, o) : o \in SortOrders(1..Len(today), key)}
    ELSE {SubSeq(Take(today, StableOrder(1..Len(today), key)), 1, n)}
nsmallest(today, n) == first_by(today, n, RankUp(price_kwh_of(today)))
\* a faulty variant: the n largest, left in ascending order
nlargest_ascending(today, n) ==
    {MkSeq([i \in 1..Len(t) |-> t[Len(t) + 1 - i]]) :
        t \in first_by(today, n, RankDown(price_kwh_of(today)))}
nlargest(today, n) == first_by(today, n, RankDown(price_kwh_of(today)))
\* the frame with price_kwh * 100 as "cents/kWh"
to_cents(frame) ==
    MkSeq([i \in 1..Len(frame) |-> [ts |-> frame[i].ts, cents |-> FMul(frame[i].price_kwh, F100)]])

(***************************************************************************)
(* One run of the script.  `w` is the widget state the run starts from;    *)
(* an optional value is <<>> or <<v>>.  A widget the run does not reach    *)
(* loses its state (Streamlit forgets widgets that were not drawn).        *)
(***************************************************************************)
BEST_N_MIN == 1
BEST_N_MAX == 8
BEST_N_DEFAULT == 3

NoWidgets == [country |-> <<>>, date |-> <<>>, best_n |-> <<>>]
NoOutput ==
    [status |-> "none", error |-> "", read |-> FALSE, loaded |-> FALSE,
     selectors |-> <<>>, today |-> <<>>, locals |-> <<>>, panels |-> <<>>,
     chart |-> <<>>, tables |-> <<>>]

price_cols(gold_ts) == gold_ts.cols
available_dates(gold_ts) == {normalize(r.ts) : r \in Range(gold_ts.rows)}
Max(S) == CHOOSE x \in S : \A y \in S : y <= x
ColumnOf(cols, name) == CHOOSE i \in 1..Len(cols) : cols[i] = name

\* st.selectbox("Choose market", ...)
country_of(w, gold_ts) ==
    IF w.country # <<>> /\ w.country[1] \in Range(price_cols(gold_ts)) THEN w.country[1]
    ELSE IF "netherlands_nl" \in Range(price_cols(gold_ts)) THEN "netherlands_nl"
    ELSE price_cols(gold_ts)[1]
\* st.selectbox("Choose date", ...)
selected_date_of(w, gold_ts) ==
    IF w.date # <<>> /\ w.date[1] \in available_dates(gold_ts) THEN w.date[1]
    ELSE Max(available_dates(gold_ts))
\* st.slider("Show best/worst hours", 1, 8, 3)
best_n_of(w) ==
    IF w.best_n # <<>> /\ w.best_n[1] \in BEST_N_MIN..BEST_N_MAX THEN w.best_n[1]
    ELSE BEST_N_DEFAULT

\* gold_ts.loc[gold_ts.index.normalize() == selected_date, [country]].dropna()
day_slice(gold_ts, country, selected_date) ==
    LET c   == ColumnOf(gold_ts.cols, country)
        sel == SelectSeq(gold_ts.rows,
                         LAMBDA r : normalize(r.ts) = selected_date /\ r.px[c] # <<>>)
    IN  MkSeq([i \in 1..Len(sel) |-> [ts |-> sel[i].ts, mwh |-> CellValue(sel[i].px[c])]])
\* today["price_kwh"] = today[country] / 1000
with_price_kwh(today) ==
    MkSeq([i \in 1..Len(today) |->
        [ts |-> today[i].ts, mwh |-> today[i].mwh, price_kwh |-> FDiv(today[i].mwh, F1000)]])

\* ((current_price_kwh - daily_avg_kwh) / daily_avg_kwh) * 100 on Python
\* floats, whose division by zero raises ZeroDivisionError
ZeroDivision(daily_avg_kwh) == daily_avg_kwh = FZero
pct_vs_avg(current_price_kwh, daily_avg_kwh) ==
    FMul(FDiv(FSub(current_price_kwh, daily_avg_kwh), daily_avg_kwh), F100)

\* the names the script binds between the slice and the layout
Locals(today, daily_avg_kwh, low_thr, high_thr, now, day) ==
    [current_price_kwh |-> today[Len(today)].price_kwh,
     current_time      |-> today[Len(today)].ts,
     daily_avg_kwh     |-> daily_avg_kwh,
     bake_cost_now     |-> FMul(BAKE_KWH, today[Len(today)].price_kwh),
     bake_cost_avg     |-> FMul(BAKE_KWH, daily_avg_kwh),
     low_thr |-> low_thr, high_thr |-> high_thr,
     title_now |-> now[1], kind_now |-> now[2],
     title_day |-> day[1], kind_day |-> day[2]]
\* the two panels: getattr(st, kind_now)(...) and getattr(st, kind_day)(...)
Panels(l, pct) ==
    [now |-> [kind |-> l.kind_now, title |-> l.title_now,
              cents |-> FMul(l.current_price_kwh, F100), cost |-> l.bake_cost_now,
              pct |-> pct],
     day |-> [kind |-> l.kind_day, cents |-> FMul(l.daily_avg_kwh, F100),
              cost |-> l.bake_cost_avg]]

\* from the layout on: the panels, the chart, the slider and the two tables
Layout(w, page, kept, today, l) ==
    IF ZeroDivision(l.daily_avg_kwh)
    THEN /\ out' = [page EXCEPT !.status = "ZeroDivisionError",
                                !.error = "ZeroDivisionError: float division by zero"]
         /\ widgets' = kept
    ELSE \E pct \in {pct_vs_avg(l.current_price_kwh, l.daily_avg_kwh)} :
         \E best_n \in {best_n_of(w)} :
         \E cheapest \in nsmallest(today, best_n) :
         \E priciest \in nlargest(today, best_n) :
            /\ out' = [page EXCEPT !.status = "Rendered",
                                   !.panels = <<Panels(l, pct)>>,
                                   !.chart = <<to_cents(today)>>,
                                   !.tables = <<[best_n |-> best_n,
                                                 cheapest |-> to_cents(cheapest),
                                                 priciest |-> to_cents(priciest)]>>]
            /\ widgets' = [kept EXCEPT !.best_n = <<best_n>>]
\* from the slice to the recommendations
Slice(w, page, kept, today) ==
    IF today = <<>>
    THEN /\ out' = [page EXCEPT !.status = "EmptySlice",
                                !.error = "No data for selected date."]
         /\ widgets' = kept
    ELSE \E priced \in {with_price_kwh(today)} :
         \E daily_avg_kwh \in {mean(price_kwh_of(priced))} :
         \E low_thr \in {quantile(price_kwh_of(priced), QUANTILES_LOW)} :
         \E high_thr \in {quantile(price_kwh_of(priced), QUANTILES_HIGH)} :
         \E now \in {bake_reco(priced[Len(priced)].price_kwh, low_thr, high_thr)} :
         \E day \in {bake_reco(daily_avg_kwh, low_thr, high_thr)} :
         \E l \in {Locals(priced, daily_avg_kwh, low_thr, high_thr, now, day)} :
            Layout(w, [page EXCEPT !.today = priced, !.locals = <<l>>], kept, priced, l)

\* a faulty variant: the file is looked for only when it has to be read
FileMissingUncached == ~exists /\ cache = {}
\* not os.path.exists(DATA_PATH)
FileMissing == ~exists
Script(w) ==
    IF FileMissing
    THEN /\ out' = [NoOutput EXCEPT !.status = "DataNotFound",
                                    !.error = "gold.csv not found"]
         /\ widgets' = NoWidgets
         /\ UNCHANGED <<disk, exists, cache, reads>>
    ELSE \E gold_df \in (IF CacheHit(DATA_PATH) THEN CacheGet(DATA_PATH)
                         ELSE load_data(DATA_PATH)) :
         \E gold_ts \in sort_index(gold_df) :
         \E country \in {country_of(w, gold_ts)} :
         \E selected_date \in {selected_date_of(w, gold_ts)} :
            /\ cache' = cache \cup {<<DATA_PATH, gold_df>>}
            /\ reads' = IF CacheHit(DATA_PATH) THEN reads ELSE reads + 1
            /\ UNCHANGED <<disk, exists>>
            /\ Slice(w,
                     [NoOutput EXCEPT !.loaded = TRUE, !.read = ~CacheHit(DATA_PATH),
                         !.selectors = <<[country |-> country,
                                          selected_date |-> selected_date]>>],
                     [country |-> <<country>>, date |-> <<selected_date>>, best_n |-> <<>>],
                     day_slice(gold_ts, country, selected_date))

(***************************************************************************)
(* The actions: what starts a run, and what happens to the file.           *)
(***************************************************************************)
NewSession == Script(NoWidgets)
Rerun == out.status # "none" /\ Script(widgets)
SelectMarket ==
    /\ out.selectors # <<>>
    /\ \E e \in cache : \E c \in Range(price_cols(e[2])) :
          Script([widgets EXCEPT !.country = <<c>>])
SelectDate ==
    /\ out.selectors # <<>>
    /\ \E e \in cache : \E d \in available_dates(e[2]) :
          Script([widgets EXCEPT !.date = <<d>>])
SetBestN ==
    /\ out.tables # <<>>
    /\ \E n \in BEST_N_MIN..BEST_N_MAX : Script([widgets EXCEPT !.best_n = <<n>>])
FileDeleted ==
    /\ exists
    /\ exists' = FALSE
    /\ UNCHANGED <<disk, cache, reads, widgets, out>>
FileRestored ==
    /\ ~exists
    /\ exists' = TRUE
    /\ UNCHANGED <<disk, cache, reads, widgets, out>>

Next ==
    \/ NewSession
    \/ Rerun
    \/ SelectMarket
    \/ SelectDate
    \/ SetBestN
    \/ FileDeleted
    \/ FileRestored

(***************************************************************************)
(* The files.  A day file holds one market and one day, hour after hour.   *)
(***************************************************************************)
MaxLen == 4
DayPrices == {-100, 100}
RECURSIVE SeqsUpTo(_, _)
SeqsUpTo(S, n) ==
    IF n = 0 THEN {<<>>}
    ELSE LET shorter == SeqsUpTo(S, n - 1)
         IN  shorter \cup {Append(s, x) : s \in {t \in shorter : Len(t) = n - 1}, x \in S}
DayFile(prices) ==
    [cols |-> <<"netherlands_nl">>,
     rows |-> MkSeq([i \in 1..Len(prices) |-> [ts |-> i - 1, px |-> << <<prices[i]>> >>]])]
DayFiles == {DayFile(p) : p \in SeqsUpTo(DayPrices, MaxLen) \ {<<>>}}

InitWith(files) ==
    /\ disk \in files
    /\ exists \in BOOLEAN
    /\ cache = {}
    /\ reads = 0
    /\ widgets = NoWidgets
    /\ out = NoOutput
InitDay == InitWith(DayFiles)
SpecDay == InitDay /\ [][Next]_vars

(***************************************************************************)
(* A market file holds two markets and up to MaxRows rows, in any order,   *)
(* on two days: a date_cet cell may not parse, a timestamp may come twice, *)
(* a price cell may be empty, and a price may be zero.  At least one       *)
(* date_cet cell parses.                                                   *)
(***************************************************************************)
MaxRows == 2
Stamps == {NaT, 0, 24}
Cells == {<< <<>>, <<100>> >>, << <<0>>, <<100>> >>}
MarketRows ==
    [ts : Stamps \ {NaT}, px : Cells] \cup {[ts |-> NaT, px |-> << <<100>>, <<100>> >>]}
MarketFile(rows) == [cols |-> <<"belgium_be", "netherlands_nl">>, rows |-> rows]
MarketFiles ==
    {MarketFile(r) : r \in {s \in SeqsUpTo(MarketRows, MaxRows) :
                               \E i \in 1..Len(s) : s[i].ts # NaT}}
\* 24 hourly rows for netherlands_nl, from 20 EUR/MWh in steps of 2.5
ExampleDay == DayFile(MkSeq([i \in 1..24 |-> 40 + 5 * (i - 1)]))

Init == InitWith(MarketFiles \cup {ExampleDay})
Spec == Init /\ [][Next]_vars

(***************************************************************************)
(* Properties of the runs.                                                 *)
(***************************************************************************)
PageRendered == out.status = "Rendered"
Flat(frame) == \A i, j \in 1..Len(frame) : frame[i].mwh = frame[j].mwh
\* the kind the rule 'price <= low, then price >= high, then otherwise' gives
FirstMatch(p, low, high) ==
    IF FCmp(p, low) <= 0 THEN "success"
    ELSE IF FCmp(p, high) >= 0 THEN "error" ELSE "info"

\* C1: each recommendation follows the rule price <= low, then price >= high,
\* then otherwise, first match wins; and on a flat day (every price of the
\* slice equal, so low == high == price) the latest hour and the day
\* average are both APPLE PIE.
C1_FirstMatchFlatDay ==
    out.locals # <<>> =>
        /\ out.locals[1].kind_now
              = FirstMatch(out.locals[1].current_price_kwh, out.locals[1].low_thr,
                           out.locals[1].high_thr)
        /\ out.locals[1].kind_day
              = FirstMatch(out.locals[1].daily_avg_kwh, out.locals[1].low_thr,
                           out.locals[1].high_thr)
        /\ Flat(out.today) =>
              /\ out.locals[1].low_thr = out.locals[1].high_thr
              /\ out.locals[1].high_thr = out.locals[1].current_price_kwh
              /\ out.locals[1].kind_now = "success"
              /\ out.locals[1].kind_day = "success"

AtBoundary(p, k, low, high) ==
    /\ p = low => k = "success"
    /\ (p = high /\ FCmp(p, low) > 0) => k = "error"
\* C2, as amended: a price equal to low is favorable and never neutral,
\* also when low == high; a price equal to high and above low is
\* unfavorable.
C2_Boundaries ==
    out.locals # <<>> =>
        /\ AtBoundary(out.locals[1].current_price_kwh, out.locals[1].kind_now,
                      out.locals[1].low_thr, out.locals[1].high_thr)
        /\ AtBoundary(out.locals[1].daily_avg_kwh, out.locals[1].kind_day,
                      out.locals[1].low_thr, out.locals[1].high_thr)
\* C2, reached: a run whose latest price equals both thresholds
C2_AtBothThresholds ==
    /\ out.locals # <<>>
    /\ out.locals[1].current_price_kwh = out.locals[1].low_thr
    /\ out.locals[1].low_thr = out.locals[1].high_thr
    /\ out.locals[1].kind_now = "success"
AsStatedAtBoundary(p, k, low, high) ==
    /\ (p = low /\ FCmp(low, high) < 0) => k = "success"
    /\ p = high => k = "error"
\* C2, as stated: a price equal to low < high is favorable; a price equal
\* to high is unfavorable, also when low == high.
C2_HighTakesPrecedence ==
    out.locals # <<>> =>
        /\ AsStatedAtBoundary(out.locals[1].current_price_kwh, out.locals[1].kind_now,
                              out.locals[1].low_thr, out.locals[1].high_thr)
        /\ AsStatedAtBoundary(out.locals[1].daily_avg_kwh, out.locals[1].kind_day,
                              out.locals[1].low_thr, out.locals[1].high_thr)

\* C3, as amended: the thresholds of a non-empty slice satisfy low <= high,
\* and low == high when all prices of the slice are equal.
C3_ThresholdsOrdered ==
    out.locals # <<>> =>
        /\ FLe(out.locals[1].low_thr, out.locals[1].high_thr)
        /\ Flat(out.today) => out.locals[1].low_thr = out.locals[1].high_thr
\* C3, reached: a slice with two distinct prices whose thresholds are equal
C3_EqualThoughNotFlat ==
    /\ out.locals # <<>>
    /\ ~Flat(out.today)
    /\ out.locals[1].low_thr = out.locals[1].high_thr
\* C3, as stated: low <= high, and low == high exactly when all prices of
\* the slice are equal.
C3_EqualExactlyWhenFlat ==
    out.locals # <<>> =>
        /\ FLe(out.locals[1].low_thr, out.locals[1].high_thr)
        /\ Flat(out.today) <=> out.locals[1].low_thr = out.locals[1].high_thr

PriceAt(t) == (CHOOSE r \in Range(out.today) : r.ts = t).price_kwh
\* hour a stands before hour b: by price (dir -1 the cheaper first, dir 1
\* the pricier first), and the earlier hour first among equal prices
Before(a, b, dir) ==
    \/ FCmp(PriceAt(a), PriceAt(b)) = dir
    \/ PriceAt(a) = PriceAt(b) /\ a < b
Ranked(listed, n, dir) ==
    /\ Len(listed) = Min(n, Len(out.today))
    /\ \A i \in 1..Len(listed) : \E r \in Range(out.today) : r.ts = listed[i].ts
    /\ \A i, j \in 1..Len(listed) : i < j => Before(listed[i].ts, listed[j].ts, dir)
    /\ \A r \in Range(out.today) :
          (\A i \in 1..Len(listed) : listed[i].ts # r.ts)
              => \A i \in 1..Len(listed) : Before(listed[i].ts, r.ts, dir)
StampsOf(listed) == MkSeq([i \in 1..Len(listed) |-> listed[i].ts])
CentsOf(listed) == MkSeq([i \in 1..Len(listed) |-> listed[i].cents])
MwhOf(listed) ==
    MkSeq([i \in 1..Len(listed) |-> (CHOOSE r \in Range(out.today) : r.ts = listed[i].ts).mwh])
\* C5, reached: the example day rendered with n = 3
C5_ExampleRun == disk = ExampleDay /\ PageRendered /\ out.tables[1].best_n = 3
\* C5, as amended: for the example day and n = 3 the cheapest table lists
\* the first three hours at 2.00, 2.25 and 2.50 cents/kWh, and the priciest
\* table the last three hours in descending order, at 77.5, 75 and 72.5
\* EUR/MWh.
C5_ExampleTables ==
    C5_ExampleRun =>
        /\ StampsOf(out.tables[1].cheapest) = <<0, 1, 2>>
        /\ MwhOf(out.tables[1].cheapest) = <<CellValue(<<40>>), CellValue(<<45>>), CellValue(<<50>>)>>
        /\ CentsOf(out.tables[1].cheapest)
              = <<FInt(2), FRound(FALSE, BigOf(9), -2), FRound(FALSE, BigOf(5), -1)>>
        /\ StampsOf(out.tables[1].priciest) = <<23, 22, 21>>
        /\ MwhOf(out.tables[1].priciest) = <<CellValue(<<155>>), CellValue(<<150>>), CellValue(<<145>>)>>
\* C5, as stated: the same, the priciest table at 80, 77.5 and 75 EUR/MWh.
C5_ExampleTablesTo80 ==
    C5_ExampleRun =>
        /\ StampsOf(out.tables[1].cheapest) = <<0, 1, 2>>
        /\ CentsOf(out.tables[1].cheapest)
              = <<FInt(2), FRound(FALSE, BigOf(9), -2), FRound(FALSE, BigOf(5), -1)>>
        /\ StampsOf(out.tables[1].priciest) = <<23, 22, 21>>
        /\ MwhOf(out.tables[1].priciest) = <<CellValue(<<160>>), CellValue(<<155>>), CellValue(<<150>>)>>

\* C6: a run that starts without the file ends in DataNotFound with a
\* message, before anything else: nothing is read or loaded, and there is
\* no selector, slice, recommendation, chart or table.
C6_MissingFileStopsRun ==
    [][(~exists /\ ~exists') =>
          /\ out'.status = "DataNotFound" /\ out'.error # ""
          /\ ~out'.loaded /\ ~out'.read
          /\ out'.selectors = <<>> /\ out'.today = <<>> /\ out'.locals = <<>>
          /\ out'.panels = <<>> /\ out'.chart = <<>> /\ out'.tables = <<>>
          /\ cache' = cache /\ reads' = reads]_vars
\* C6, reached: the file went missing after the table was loaded and memoised
C6_MissingAfterLoad == ~exists /\ cache # {} /\ out.status = "DataNotFound"

\* C7: an empty slice ends the run in EmptySlice with a message and without
\* recommendation, chart or table; the error is not sticky: the next run
\* whose selection has a valid row renders the full output.
C7_EmptySliceNotSticky ==
    [][/\ out'.status = "EmptySlice" =>
             /\ out'.error # "" /\ out'.today = <<>> /\ out'.locals = <<>>
             /\ out'.panels = <<>> /\ out'.chart = <<>> /\ out'.tables = <<>>
       /\ (out.status = "EmptySlice" /\ out'.today # <<>>) =>
             /\ out'.status = "Rendered"
             /\ out'.panels # <<>> /\ out'.chart # <<>> /\ out'.tables # <<>>]_vars

\* C8: the file is read at most once: the first run that reaches the load
\* reads it; later runs take the memoised table without reading; the memo is
\* never dropped and the table in it never changes.
C8_ReadOnce ==
    [][/\ reads' <= 1 /\ Cardinality(cache') = reads'
       /\ cache # {} => (cache' = cache /\ reads' = reads /\ (out' # out => ~out'.read))
       /\ (cache = {} /\ out'.loaded) => (reads' = 1 /\ out'.read)]_vars
\* C8, reached: a run that took the table from the memo
C8_MemoReused == reads = 1 /\ cache # {} /\ out.loaded /\ ~out.read

Copies(rows, r) == Cardinality({i \in 1..Len(rows) : rows[i] = r})
\* C9, as amended: in the loaded table no timestamp is NaT and the
\* timestamps never decrease; its rows are the rows of the file whose
\* date_cet parsed, each as often as the file holds it.
C9_LoadedTable ==
    \A e \in cache :
        /\ \A i \in 1..Len(e[2].rows) : e[2].rows[i].ts # NaT
        /\ \A i \in 1..(Len(e[2].rows) - 1) : e[2].rows[i].ts <= e[2].rows[i + 1].ts
        /\ \A r \in Range(disk.rows) :
              Copies(e[2].rows, r) = (IF r.ts = NaT THEN 0 ELSE Copies(disk.rows, r))
\* C9, reached: a table loaded from a file with a date_cet that did not parse
C9_UnparsedRowDropped ==
    /\ cache # {}
    /\ \E i \in 1..Len(disk.rows) : disk.rows[i].ts = NaT
\* C9, as stated: in the loaded table no timestamp is NaT and each timestamp
\* is greater than the one before it.
C9_StrictlyIncreasing ==
    \A e \in cache :
        /\ \A i \in 1..Len(e[2].rows) : e[2].rows[i].ts # NaT
        /\ \A i \in 1..(Len(e[2].rows) - 1) : e[2].rows[i].ts < e[2].rows[i + 1].ts

\* C10: with a day average of exactly 0 the run is in no error state and
\* renders both panels, the chart and the tables.
C10_ZeroAverageRendered ==
    (out.locals # <<>> /\ out.locals[1].daily_avg_kwh = FZero) =>
        /\ out.status = "Rendered" /\ out.error = ""
        /\ out.panels # <<>> /\ out.chart # <<>> /\ out.tables # <<>>
====
